---------------------------- MODULE Spec2Model ----------------------------
(* silentjack: silence / dead-air detector for JACK (silentjack.c).        *)
(*                                                                         *)
(* Two threads share the float `peak`: the JACK process callback           *)
(* (process_peak) raises it to the running absolute peak sample, and the   *)
(* main loop reads and resets it once per evaluated second (read_peak),    *)
(* converts it to decibels and drives two debounce counters and a grace    *)
(* countdown that decide when run_command is invoked.                      *)
(*                                                                         *)
(* Linear amplitudes are integers in units of 1/100000 of full scale;      *)
(* decibel values are whole decibels.                                      *)
EXTENDS Integers, Sequences, FiniteSets

-----------------------------------------------------------------------------
(* Bounds of the model *)

\* longest audio buffer (nframes) handed to the process callback
MaxFrames == 2

\* the non-zero debounce period given with -p (and, as a float, with -P)
OptPeriod == 2

\* the non-zero grace period given with -g
OptGrace == 2

-----------------------------------------------------------------------------
(* Pure helpers *)

\* fabs()
Fabs(x) == IF x < 0 THEN -x ELSE x

\* the number a string of decimal digits spells (0 for no digit)
RECURSIVE DigitsValue(_)
DigitsValue(ds) ==
    IF ds = <<>> THEN 0
    ELSE 10 * DigitsValue(SubSeq(ds, 1, Len(ds) - 1)) + ds[Len(ds)]

\* atoi(): an option text is its sign, "-" or "", and its leading digits
\* (none for a text that does not start with a number, which atoi reads
\* as 0)
Atoi(text) ==
    IF text[1] = "-" THEN -DigitsValue(text[2]) ELSE DigitsValue(text[2])

\* (int) atof(): the option text is a decimal number given in tenths, the
\* conversion of the float to int discards the fraction (towards zero)
AtofToInt(tenths) == IF tenths < 0 THEN -((-tenths) \div 10) ELSE tenths \div 10

\* reading returned for a peak of exactly zero
SilenceFloorDb == -90

\* decibel grid: the whole-decibel levels of the model and the smallest
\* linear amplitude (1/100000 of full scale) that reaches each:
\* 10^(dB/20) * 100000 rounded up
DbGrid ==
    { <<-60, 100>>, <<-50, 317>>, <<-45, 563>>, <<-40, 1000>>,
      <<-10, 31623>>, <<0, 100000>> }

\* lin2db(): 20*log10(lin), to the grid level at or below it; the floor
\* for lin == 0
Lin2Db(lin) ==
    IF lin = 0 THEN SilenceFloorDb
    ELSE LET below == { g \in DbGrid : g[2] <= lin }
         IN  IF below = {} THEN SilenceFloorDb
             ELSE CHOOSE d \in { g[1] : g \in below } :
                      \A e \in { g[1] : g \in below } : e <= d

\* the sample values the audio source produces (1/100000 of full scale):
\* -10 dB (negative phase), -45 dB (negative phase), digital silence, -50 dB
Samples == { -31623, -563, 0, 317 }

\* the buffers the callback can be handed: 1..MaxFrames samples
Buffers == UNION { [1..n -> Samples] : n \in 1..MaxFrames }

\* process_peak's loop run to completion from a peak of p over buffer in
RECURSIVE PeakAfter(_, _)
PeakAfter(p, in) ==
    IF in = <<>> THEN p
    ELSE LET s == Fabs(Head(in))
         IN  PeakAfter(IF s > p THEN s ELSE p, Tail(in))

-----------------------------------------------------------------------------
(* State of the program *)

VARIABLES
    \* globals
    input_port,          \* "NULL" or the registered port
    peak,                \* current peak signal level (linear), shared
    running,             \* 1 while the main loop keeps running
    \* the JACK graph: whether the input port has a connection
    connected,
    \* the command line left after the options: "none" (argc < 1),
    \* "exit" (the single word exit) or "prog" (a program to run)
    command,
    \* main's configuration
    silence_period, nodynamic_period, grace_period,
    silence_theshold, nodynamic_theshold,
    \* main's working state
    peakdb, last_peakdb, silence_count, nodynamic_count, in_grace,
    \* where main is
    pc,
    \* read_peak's local peakdb, between its two statements
    rp_peakdb,
    \* process_peak in flight: where it is, and the samples of its buffer
    \* from in[i] on
    cb_pc, cb_in

config == << command, silence_period, nodynamic_period, grace_period,
             silence_theshold, nodynamic_theshold >>

main_vars == << peakdb, last_peakdb, silence_count, nodynamic_count,
                in_grace, pc, rp_peakdb >>

cb_vars == << cb_pc, cb_in >>

prog_vars == << input_port, peak, running, connected, config, main_vars,
                cb_vars >>

\* main has left the loop or the process has exited
Stopped == pc \in { "finish", "exit" }

\* the JACK server still drives this client
JackAlive == running = 1 /\ ~Stopped

-----------------------------------------------------------------------------
(* Start of the program: the option loop and init_jack *)

\* The state at the first test of while (running), for the option values
\* l (-l, whole dB), p (-p, a text), d (-d, whole dB), P (-P, in tenths),
\* g (-g, a text) and the command cmd. An option that is not given has the
\* value of its default.
Start(l, p, d, P, g, cmd) ==
    /\ input_port = "in"
    /\ peak = 0
    /\ running = 1
    /\ connected \in BOOLEAN
    /\ command = cmd
    /\ silence_theshold = l
    /\ silence_period = Fabs(Atoi(p))
    /\ nodynamic_theshold = d
    /\ nodynamic_period = AtofToInt(P)
    /\ grace_period = Fabs(Atoi(g))
    /\ peakdb = 0
    /\ last_peakdb = 0
    /\ silence_count = 0
    /\ nodynamic_count = 0
    /\ in_grace = 0
    /\ pc = "while"
    /\ rp_peakdb = 0
    /\ cb_pc = "idle"
    /\ cb_in = <<>>

-----------------------------------------------------------------------------
(* The main loop *)

\* a loop that looks at running only once the grace period is over
LoopTestAfterGrace ==
    /\ pc = "while"
    /\ pc' = IF running # 0 \/ in_grace # 0 THEN "usleep" ELSE "finish"
    /\ UNCHANGED << input_port, peak, running, connected, config, peakdb,
                    last_peakdb, silence_count, nodynamic_count, in_grace,
                    rp_peakdb, cb_vars >>

\* while (running)
LoopTest ==
    /\ pc = "while"
    /\ pc' = IF running # 0 THEN "usleep" ELSE "finish"
    /\ UNCHANGED << input_port, peak, running, connected, config, peakdb,
                    last_peakdb, silence_count, nodynamic_count, in_grace,
                    rp_peakdb, cb_vars >>

\* the second has passed and we are in the grace period
GraceTick ==
    /\ pc = "usleep"
    /\ in_grace # 0
    /\ in_grace' = in_grace - 1
    /\ pc' = "while"
    /\ UNCHANGED << input_port, peak, running, connected, config, peakdb,
                    last_peakdb, silence_count, nodynamic_count, rp_peakdb,
                    cb_vars >>

\* a disconnected tick that takes its reading all the same
DisconnectedTickReads ==
    /\ pc = "usleep"
    /\ in_grace = 0
    /\ ~connected
    /\ last_peakdb' = peakdb
    /\ peakdb' = Lin2Db(peak)
    /\ peak' = 0
    /\ pc' = "while"
    /\ UNCHANGED << input_port, running, connected, config, silence_count,
                    nodynamic_count, in_grace, rp_peakdb, cb_vars >>

\* the second has passed, no grace, and the port is connected to nothing
DisconnectedTick ==
    /\ pc = "usleep"
    /\ in_grace = 0
    /\ ~connected
    /\ pc' = "while"
    /\ UNCHANGED << input_port, peak, running, connected, config, peakdb,
                    last_peakdb, silence_count, nodynamic_count, in_grace,
                    rp_peakdb, cb_vars >>

\* the second has passed, no grace, connected: last_peakdb = peakdb and
\* the call of read_peak
EvalTick ==
    /\ pc = "usleep"
    /\ in_grace = 0
    /\ connected
    /\ last_peakdb' = peakdb
    /\ pc' = "read_peak"
    /\ UNCHANGED << input_port, peak, running, connected, config, peakdb,
                    silence_count, nodynamic_count, in_grace, rp_peakdb,
                    cb_vars >>

\* read_peak: float peakdb = lin2db(peak)
ReadPeakLoad ==
    /\ pc = "read_peak"
    /\ rp_peakdb' = Lin2Db(peak)
    /\ pc' = "reset"
    /\ UNCHANGED << input_port, peak, running, connected, config, peakdb,
                    last_peakdb, silence_count, nodynamic_count, in_grace,
                    cb_vars >>

\* read_peak: peak = 0.0f; return peakdb (assigned to main's peakdb)
ReadPeakReset ==
    /\ pc = "reset"
    /\ peak' = 0
    /\ peakdb' = rp_peakdb
    /\ pc' = "silence"
    /\ UNCHANGED << input_port, running, connected, config, last_peakdb,
                    silence_count, nodynamic_count, in_grace, rp_peakdb,
                    cb_vars >>

\* SilenceCounted with the count kept, not cleared, on a tick that is not
\* silent
SilenceCountedNoReset ==
    IF peakdb < silence_theshold THEN silence_count + 1 ELSE silence_count

\* SilenceCounted with the comparison turned round
SilenceCountedAbove ==
    IF peakdb > silence_theshold THEN silence_count + 1 ELSE 0

\* silence_count after the test of the peak against the threshold
SilenceCounted ==
    IF peakdb < silence_theshold THEN silence_count + 1 ELSE 0

\* SilenceDetect without the test of the threshold against zero
SilenceDetectAlways ==
    /\ pc = "silence"
    /\ silence_count' = SilenceCounted
    /\ pc' = IF silence_count' >= silence_period
             THEN "run_silence" ELSE "nodynamic"
    /\ UNCHANGED << input_port, peak, running, connected, config, peakdb,
                    last_peakdb, nodynamic_count, in_grace, rp_peakdb,
                    cb_vars >>

\* SilenceDetect firing one second late: > for >=
SilenceDetectLate ==
    /\ pc = "silence"
    /\ IF silence_theshold # 0
       THEN /\ silence_count' = SilenceCounted
            /\ pc' = IF silence_count' > silence_period
                     THEN "run_silence" ELSE "nodynamic"
       ELSE /\ silence_count' = silence_count
            /\ pc' = "nodynamic"
    /\ UNCHANGED << input_port, peak, running, connected, config, peakdb,
                    last_peakdb, nodynamic_count, in_grace, rp_peakdb,
                    cb_vars >>

\* SilenceDetect zeroing the count before the command is run
SilenceDetectResetsAtCall ==
    /\ pc = "silence"
    /\ IF silence_theshold # 0
       THEN /\ silence_count' = IF SilenceCounted >= silence_period
                                THEN 0 ELSE SilenceCounted
            /\ pc' = IF SilenceCounted >= silence_period
                     THEN "run_silence" ELSE "nodynamic"
       ELSE /\ silence_count' = silence_count
            /\ pc' = "nodynamic"
    /\ UNCHANGED << input_port, peak, running, connected, config, peakdb,
                    last_peakdb, nodynamic_count, in_grace, rp_peakdb,
                    cb_vars >>

\* if (silence_theshold) { count; enough seconds of silence? }
SilenceDetect ==
    /\ pc = "silence"
    /\ IF silence_theshold # 0
       THEN /\ silence_count' = SilenceCounted
            /\ pc' = IF silence_count' >= silence_period
                     THEN "run_silence" ELSE "nodynamic"
       ELSE /\ silence_count' = silence_count
            /\ pc' = "nodynamic"
    /\ UNCHANGED << input_port, peak, running, connected, config, peakdb,
                    last_peakdb, nodynamic_count, in_grace, rp_peakdb,
                    cb_vars >>

\* run_command: how it can end for the command line cmd. No command:
\* return at once. "exit": exit(0). A program: fork, wait and return, or
\* exit(-1) if fork fails.
RunCommand(cmd) ==
    CASE cmd = "none" -> { "return" }
      [] cmd = "exit" -> { "exit" }
      [] OTHER        -> { "return", "exit" }

\* SilenceFired without the start of the grace period
SilenceFiredNoGrace ==
    /\ silence_count' = 0
    /\ in_grace' = in_grace
    /\ pc' = "nodynamic"

\* SilenceFired going straight back to the test of the loop
SilenceFiredSkipsRest ==
    /\ silence_count' = 0
    /\ in_grace' = grace_period
    /\ pc' = "while"

\* state of the silence detector once run_command has returned
SilenceFired ==
    /\ silence_count' = 0
    /\ in_grace' = grace_period
    /\ pc' = "nodynamic"

\* SilenceRunCommand zeroing the two counts when the command returns
SilenceRunCommandResetsBoth ==
    /\ pc = "run_silence"
    /\ \E end \in RunCommand(command) :
          IF end = "return"
          THEN SilenceFired /\ nodynamic_count' = 0
          ELSE /\ pc' = "exit"
               /\ UNCHANGED << silence_count, nodynamic_count, in_grace >>
    /\ UNCHANGED << input_port, peak, running, connected, config, peakdb,
                    last_peakdb, rp_peakdb, cb_vars >>

\* run_command(argc, argv) for **SILENCE** ends
SilenceRunCommand ==
    /\ pc = "run_silence"
    /\ \E end \in RunCommand(command) :
          IF end = "return"
          THEN SilenceFired
          ELSE /\ pc' = "exit"
               /\ UNCHANGED << silence_count, in_grace >>
    /\ UNCHANGED << input_port, peak, running, connected, config, peakdb,
                    last_peakdb, nodynamic_count, rp_peakdb, cb_vars >>

\* nodynamic_count after the test of the delta between the peaks
NoDynamicCounted ==
    IF Fabs(last_peakdb - peakdb) < nodynamic_theshold
    THEN nodynamic_count + 1 ELSE 0

\* NoDynamicDetect asking for one second more than the period
NoDynamicDetectLate ==
    /\ pc = "nodynamic"
    /\ IF nodynamic_theshold # 0
       THEN /\ nodynamic_count' = NoDynamicCounted
            /\ pc' = IF nodynamic_count' > nodynamic_period
                     THEN "run_nodynamic" ELSE "while"
       ELSE /\ nodynamic_count' = nodynamic_count
            /\ pc' = "while"
    /\ UNCHANGED << input_port, peak, running, connected, config, peakdb,
                    last_peakdb, silence_count, in_grace, rp_peakdb,
                    cb_vars >>

\* if (nodynamic_theshold) { count; enough seconds of no dynamic? }
NoDynamicDetect ==
    /\ pc = "nodynamic"
    /\ IF nodynamic_theshold # 0
       THEN /\ nodynamic_count' = NoDynamicCounted
            /\ pc' = IF nodynamic_count' >= nodynamic_period
                     THEN "run_nodynamic" ELSE "while"
       ELSE /\ nodynamic_count' = nodynamic_count
            /\ pc' = "while"
    /\ UNCHANGED << input_port, peak, running, connected, config, peakdb,
                    last_peakdb, silence_count, in_grace, rp_peakdb,
                    cb_vars >>

\* a grace period that adds up when both triggers run on one tick
NoDynamicFiredAdds ==
    /\ nodynamic_count' = 0
    /\ in_grace' = in_grace + grace_period
    /\ pc' = "while"

\* state of the no-dynamic detector once run_command has returned
NoDynamicFired ==
    /\ nodynamic_count' = 0
    /\ in_grace' = grace_period
    /\ pc' = "while"

\* run_command(argc, argv) for **NO DYNAMIC** ends
NoDynamicRunCommand ==
    /\ pc = "run_nodynamic"
    /\ \E end \in RunCommand(command) :
          IF end = "return"
          THEN NoDynamicFired
          ELSE /\ pc' = "exit"
               /\ UNCHANGED << nodynamic_count, in_grace >>
    /\ UNCHANGED << input_port, peak, running, connected, config, peakdb,
                    last_peakdb, silence_count, rp_peakdb, cb_vars >>

-----------------------------------------------------------------------------
(* The JACK side *)

\* process_peak, one whole call with nothing of main interleaved, on any
\* of the buffers
ProcessPeak ==
    /\ JackAlive
    /\ cb_pc = "idle"
    /\ peak' \in { IF input_port = "NULL" THEN peak ELSE PeakAfter(peak, in) :
                     in \in Buffers }
    /\ UNCHANGED << input_port, running, connected, config, main_vars,
                    cb_vars >>

\* process_peak is called with buffer in: the port test and the buffer
CallbackBegin(in) ==
    /\ JackAlive
    /\ cb_pc = "idle"
    /\ IF input_port = "NULL"
       THEN UNCHANGED cb_vars
       ELSE cb_pc' = "test" /\ cb_in' = in
    /\ UNCHANGED << input_port, peak, running, connected, config,
                    main_vars >>

\* position of the callback once in[i] is done with
CallbackNext == IF Len(cb_in) > 1 THEN "test" ELSE "idle"

\* CallbackTest comparing the sample itself, not its magnitude
CallbackTestSigned ==
    /\ ~Stopped
    /\ cb_pc = "test"
    /\ IF Head(cb_in) > peak
       THEN cb_pc' = "store" /\ cb_in' = cb_in
       ELSE cb_pc' = CallbackNext /\ cb_in' = Tail(cb_in)
    /\ UNCHANGED << input_port, peak, running, connected, config,
                    main_vars >>

\* const float s = fabs(in[i]); if (s > peak): the read of peak
CallbackTest ==
    /\ ~Stopped
    /\ cb_pc = "test"
    /\ IF Fabs(Head(cb_in)) > peak
       THEN cb_pc' = "store" /\ cb_in' = cb_in
       ELSE cb_pc' = CallbackNext /\ cb_in' = Tail(cb_in)
    /\ UNCHANGED << input_port, peak, running, connected, config,
                    main_vars >>

\* peak = s: the write of peak
CallbackStore ==
    /\ ~Stopped
    /\ cb_pc = "store"
    /\ peak' = Fabs(Head(cb_in))
    /\ cb_pc' = CallbackNext
    /\ cb_in' = Tail(cb_in)
    /\ UNCHANGED << input_port, running, connected, config, main_vars >>

\* the graph connects or disconnects the input port
Reconnect ==
    /\ JackAlive
    /\ connected' = ~connected
    /\ UNCHANGED << input_port, peak, running, config, main_vars, cb_vars >>

\* shutdown_callback_jack
ShutdownCallback ==
    /\ JackAlive
    /\ running' = 0
    /\ UNCHANGED << input_port, peak, connected, config, main_vars, cb_vars >>

-----------------------------------------------------------------------------
(* Observation of a run: what happened on the current tick *)

VARIABLES
    tickkind,     \* how the current tick began: "none" (no tick yet),
                  \* "grace", "skip" (not connected) or "eval"
    fired,        \* the triggers invoked so far on the current tick
    met,          \* the detectors whose condition this tick's readings meet
    due,          \* the detectors whose condition has now held on as many
                  \* evaluated ticks in a row, since their last fire, as
                  \* their period asks
    streak_s,     \* evaluated ticks in a row, since the last SILENCE fire,
                  \* whose reading was below the silence threshold
    streak_n,     \* the same for NO_DYNAMIC and the delta of the readings
    since_fire    \* ticks begun since the last trigger returned; -1: none

obs_vars == << tickkind, fired, met, due, streak_s, streak_n, since_fire >>

Detectors == { "SILENCE", "NO_DYNAMIC" }

Min(a, b) == IF a < b THEN a ELSE b
Max(a, b) == IF a < b THEN b ELSE a

\* the streaks are counted up to one past the longest period of the model
StreakCap == OptPeriod + 1

TickBegins     == pc = "usleep" /\ pc' # "usleep"
ReadReturns    == pc = "reset" /\ pc' = "silence"
SilenceFires   == pc = "silence" /\ pc' = "run_silence"
NoDynamicFires == pc = "nodynamic" /\ pc' = "run_nodynamic"
TriggerReturns == /\ pc \in { "run_silence", "run_nodynamic" }
                  /\ pc' \in { "nodynamic", "while" }

ObserveInit ==
    /\ tickkind = "none"
    /\ fired = {}
    /\ met = {}
    /\ due = {}
    /\ streak_s = 0
    /\ streak_n = 0
    /\ since_fire = -1

\* The observation of one step of the program, from its two states.
Observe ==
    /\ tickkind' = IF TickBegins
                   THEN (IF pc' = "read_peak" THEN "eval"
                         ELSE IF in_grace # 0 THEN "grace" ELSE "skip")
                   ELSE tickkind
    /\ fired' = IF TickBegins THEN {}
                ELSE IF SilenceFires THEN fired \cup { "SILENCE" }
                ELSE IF NoDynamicFires THEN fired \cup { "NO_DYNAMIC" }
                ELSE fired
    /\ streak_s' = IF ReadReturns
                   THEN (IF peakdb' < silence_theshold
                         THEN Min(streak_s + 1, StreakCap) ELSE 0)
                   ELSE IF SilenceFires THEN 0 ELSE streak_s
    /\ streak_n' = IF ReadReturns
                   THEN (IF Fabs(last_peakdb - peakdb') < nodynamic_theshold
                         THEN Min(streak_n + 1, StreakCap) ELSE 0)
                   ELSE IF NoDynamicFires THEN 0 ELSE streak_n
    /\ met' = IF TickBegins THEN {}
              ELSE IF ReadReturns
              THEN { k \in Detectors :
                       \/ k = "SILENCE" /\ peakdb' < silence_theshold
                       \/ /\ k = "NO_DYNAMIC"
                          /\ Fabs(last_peakdb - peakdb') < nodynamic_theshold }
              ELSE met
    /\ due' = IF TickBegins THEN {}
              ELSE IF ReadReturns
              THEN { k \in Detectors :
                       \/ /\ k = "SILENCE"
                          /\ silence_theshold # 0
                          /\ streak_s' >= silence_period
                       \/ /\ k = "NO_DYNAMIC"
                          /\ nodynamic_theshold # 0
                          /\ streak_n' >= nodynamic_period }
              ELSE due
    /\ since_fire' = IF TriggerReturns THEN 0
                     ELSE IF TickBegins /\ since_fire >= 0
                     THEN Min(since_fire + 1, grace_period + 1)
                     ELSE since_fire

-----------------------------------------------------------------------------
(* Observation of the peak cell *)

VARIABLES
    owed,      \* the largest magnitude the callback wrote into peak that no
               \* read_peak has yet included in the value it returns
    blkmax,    \* the largest magnitude among the samples of the buffers
               \* handed to the callback since read_peak last returned
    clean,     \* no call of the callback has overlapped the last call of
               \* read_peak or the time since
    last_read  \* "none", or whether the read_peak that returned last was
               \* "clean" (see clean) or "raced"

peak_obs == << owed, blkmax, clean, last_read >>

\* the largest magnitude in buffer in
MaxAbs(in) ==
    CHOOSE m \in { Fabs(in[i]) : i \in 1..Len(in) } :
        \A i \in 1..Len(in) : Fabs(in[i]) <= m

PeakObserveInit ==
    /\ owed = 0
    /\ blkmax = 0
    /\ clean = TRUE
    /\ last_read = "none"

PeakObserve ==
    /\ last_read' = IF ReadReturns
                    THEN (IF clean THEN "clean" ELSE "raced")
                    ELSE last_read
    /\ owed' = IF cb_pc = "store" /\ cb_pc' # "store"
               THEN Max(owed, peak')
               ELSE IF pc = "read_peak" /\ pc' = "reset"
               THEN (IF peak >= owed THEN 0 ELSE owed)
               ELSE owed
    /\ blkmax' = IF ReadReturns THEN 0
                 ELSE IF cb_pc = "idle" /\ cb_pc' # "idle"
                 THEN Max(blkmax, MaxAbs(cb_in'))
                 ELSE blkmax
    /\ clean' = IF ReadReturns THEN cb_pc = "idle"
                ELSE IF pc = "read_peak" /\ pc' = "reset"
                THEN clean /\ cb_pc = "idle"
                ELSE IF pc = "reset" /\ cb_vars' # cb_vars
                THEN FALSE
                ELSE clean

-----------------------------------------------------------------------------
(* Observation of the shutdown *)

VARIABLES
    late_ticks   \* the number of ticks begun (usleep returned) since running
                 \* was cleared, counted up to two

shutdown_obs == << late_ticks >>

ShutdownObserveInit == late_ticks = 0

ShutdownObserve ==
    late_ticks' = IF TickBegins /\ running = 0
                  THEN Min(late_ticks + 1, 2)
                  ELSE late_ticks

-----------------------------------------------------------------------------
(* Observation of the readings, the skipped ticks and the commands *)

VARIABLES
    skipped,       \* how many ticks in a row, just before the current one,
                   \* were grace or disconnected ticks, counted up to two
    heard,         \* the largest magnitude the callback has left in peak
                   \* since read_peak last zeroed it
    this_reading,  \* what read_peak returned last (0 before the first call)
    prev_reading,  \* what read_peak returned the time before (0 likewise)
    call_heard,    \* the callback has raised peak while the command run
                   \* last on this tick was running
    carry          \* << silence_count, nodynamic_count >> as the last tick
                   \* with a trigger left them, until read_peak next
                   \* returns; << >> otherwise

tick_obs == << skipped, heard, this_reading, prev_reading, call_heard, carry >>

\* the step that brings the loop back to its test ends a tick
TickEnds == pc # "while" /\ pc' = "while"

InCommand == pc \in { "run_silence", "run_nodynamic" }

TickObserveInit ==
    /\ skipped = 0
    /\ heard = 0
    /\ this_reading = 0
    /\ prev_reading = 0
    /\ call_heard = FALSE
    /\ carry = << >>

TickObserve ==
    /\ skipped' = IF TickBegins
                  THEN (IF tickkind \in { "grace", "skip" }
                        THEN Min(skipped + 1, 2) ELSE 0)
                  ELSE skipped
    /\ heard' = IF ReadReturns THEN 0 ELSE Max(heard, peak')
    /\ this_reading' = IF ReadReturns THEN peakdb' ELSE this_reading
    /\ prev_reading' = IF ReadReturns THEN this_reading ELSE prev_reading
    /\ call_heard' = IF TickBegins \/ SilenceFires \/ NoDynamicFires
                     THEN FALSE
                     ELSE IF InCommand /\ peak' # peak THEN TRUE
                     ELSE call_heard
    /\ carry' = IF TickEnds /\ fired' # {}
                THEN << silence_count', nodynamic_count' >>
                ELSE IF ReadReturns THEN << >>
                ELSE carry

-----------------------------------------------------------------------------
(* A scripted run: the audio source is driven so that the peak reads as   *)
(* the next reading of a script when each second has passed               *)

VARIABLES
    feed,     \* the readings (dB) still to be fed, one per tick
    trace     \* one record per finished tick

script_vars == << feed, trace >>

vars == << prog_vars, obs_vars, peak_obs, script_vars, shutdown_obs, tick_obs >>

\* what the tick that ends with this step leaves
TickRecord ==
    [ kind |-> tickkind', fired |-> fired', silence_count |-> silence_count',
      nodynamic_count |-> nodynamic_count', in_grace |-> in_grace' ]

\* The script's part in one step of the program: a second passes only once
\* the peak reads as the next scripted reading, and a tick is recorded by
\* the step that ends it.
Script ==
    /\ TickBegins => feed # <<>> /\ Lin2Db(peak) = Head(feed)
    /\ feed' = IF TickBegins THEN Tail(feed) ELSE feed
    /\ trace' = IF TickEnds THEN Append(trace, TickRecord) ELSE trace

\* the callback runs while main sleeps, on a buffer that keeps the peak at
\* or below the next scripted reading
ScriptedAudio ==
    /\ pc = "usleep"
    /\ feed # <<>>
    /\ ProcessPeak
    /\ Lin2Db(peak') <= Head(feed)

-----------------------------------------------------------------------------
(* Specifications *)

\* option values of the model
OptL == { -40, 0 }
OptD == { 0, 10 }
OptP == { << "", <<>> >>, << "", <<OptPeriod>> >>, << "-", <<OptPeriod>> >> }
OptPFloat == { -10, 0, 10 * OptPeriod + 5 }
OptG == { << "", <<>> >>, << "", <<OptGrace>> >>, << "-", <<OptGrace>> >> }
Commands == { "none", "exit", "prog" }

\* The whole program, the callback taken one call at a time.
Init ==
    /\ \E l \in OptL, p \in OptP, d \in OptD, P \in OptPFloat, g \in OptG,
          cmd \in Commands : Start(l, p, d, P, g, cmd)
    /\ ObserveInit
    /\ PeakObserveInit
    /\ ShutdownObserveInit
    /\ TickObserveInit
    /\ feed = <<>>
    /\ trace = <<>>

Step(A) ==
    /\ A /\ Observe
    /\ UNCHANGED << peak_obs, script_vars, shutdown_obs, tick_obs >>

Next ==
    \/ Step(LoopTest)
    \/ Step(GraceTick)
    \/ Step(DisconnectedTick)
    \/ Step(EvalTick)
    \/ Step(ReadPeakLoad)
    \/ Step(ReadPeakReset)
    \/ Step(SilenceDetect)
    \/ Step(SilenceRunCommand)
    \/ Step(NoDynamicDetect)
    \/ Step(NoDynamicRunCommand)
    \/ Step(ProcessPeak)
    \/ Step(Reconnect)
    \/ Step(ShutdownCallback)

Spec == Init /\ [][Next]_vars

\* The peak cell under every interleaving of the callback's reads and
\* writes of peak with read_peak's: the program started with no option and
\* no command, the port connected.
InitPeak ==
    /\ Start(-40, << "", <<1>> >>, 0, 100, << "", <<0>> >>, "none")
    /\ connected
    /\ ObserveInit
    /\ PeakObserveInit
    /\ ShutdownObserveInit
    /\ TickObserveInit
    /\ feed = <<>>
    /\ trace = <<>>

PeakStep(A) ==
    /\ A /\ Observe /\ PeakObserve
    /\ UNCHANGED << script_vars, shutdown_obs, tick_obs >>

NextPeak ==
    \/ PeakStep(LoopTest)
    \/ PeakStep(EvalTick)
    \/ PeakStep(ReadPeakLoad)
    \/ PeakStep(ReadPeakReset)
    \/ PeakStep(SilenceDetect)
    \/ PeakStep(SilenceRunCommand)
    \/ PeakStep(NoDynamicDetect)
    \/ PeakStep(\E in \in Buffers : CallbackBegin(in))
    \/ PeakStep(CallbackTest)
    \/ PeakStep(CallbackStore)
    \/ PeakStep(ShutdownCallback)

SpecPeak == InitPeak /\ [][NextPeak]_vars

\* A scripted run: the port stays connected.
ScriptStep(A) ==
    A /\ Observe /\ Script /\ UNCHANGED << peak_obs, shutdown_obs, tick_obs >>

\* -l -40 -p 3, fed -50, -50, -45, -50, -50, -50
ReadingsDebounce == << -50, -50, -45, -50, -50, -50 >>

InitDebounce ==
    /\ \E cmd \in { "none", "prog" } :
          Start(-40, << "", <<3>> >>, 0, 100, << "", <<0>> >>, cmd)
    /\ connected
    /\ ObserveInit
    /\ PeakObserveInit
    /\ ShutdownObserveInit
    /\ TickObserveInit
    /\ feed = ReadingsDebounce
    /\ trace = <<>>

NextDebounce ==
    \/ ScriptStep(LoopTest)
    \/ ScriptStep(EvalTick)
    \/ ScriptStep(ReadPeakLoad)
    \/ ScriptStep(ReadPeakReset)
    \/ ScriptStep(SilenceDetect)
    \/ ScriptStep(SilenceRunCommand)
    \/ ScriptStep(NoDynamicDetect)
    \/ ScriptStep(ScriptedAudio)
    \/ ScriptStep(ShutdownCallback)

SpecDebounce == InitDebounce /\ [][NextDebounce]_vars

\* -l -40 -p 2 -g 1, fed -10, -45, -45, -10
ReadingsEndToEnd == << -10, -45, -45, -10 >>

InitEndToEnd ==
    /\ \E cmd \in { "none", "prog" } :
          Start(-40, << "", <<2>> >>, 0, 100, << "", <<1>> >>, cmd)
    /\ connected
    /\ ObserveInit
    /\ PeakObserveInit
    /\ ShutdownObserveInit
    /\ TickObserveInit
    /\ feed = ReadingsEndToEnd
    /\ trace = <<>>

NextEndToEnd ==
    \/ ScriptStep(LoopTest)
    \/ ScriptStep(GraceTick)
    \/ ScriptStep(EvalTick)
    \/ ScriptStep(ReadPeakLoad)
    \/ ScriptStep(ReadPeakReset)
    \/ ScriptStep(SilenceDetect)
    \/ ScriptStep(SilenceRunCommand)
    \/ ScriptStep(NoDynamicDetect)
    \/ ScriptStep(ScriptedAudio)
    \/ ScriptStep(ShutdownCallback)

SpecEndToEnd == InitEndToEnd /\ [][NextEndToEnd]_vars

-----------------------------------------------------------------------------
(* The peak cell: C1, C2 (under SpecPeak) *)

\* C1: the read-and-reset of the peak cell is atomic with respect to the
\* callback: whenever read_peak is not between its read and its reset,
\* every magnitude the callback wrote that no read_peak has returned yet is
\* still in the cell (no write is lost between the read and the reset).
PeakHandoffAtomic ==
    pc # "reset" => peak >= owed

\* C2: a read_peak that no callback call overlaps, following one that none
\* overlapped, returns the decibel value of the largest magnitude among the
\* samples of the buffers processed in between (of 0 if there were none);
\* every read_peak leaves the cell at exactly zero, and nothing else ever
\* lowers the cell.
ReadAndResetExact ==
    [][ /\ ReadReturns => peak' = 0
        /\ ReadReturns /\ clean => peakdb' = Lin2Db(blkmax)
        /\ peak' < peak => ReadReturns ]_vars

\* a clean read_peak has just returned -45 dB, from a negative sample
ReadAndResetWitness ==
    /\ pc = "silence"
    /\ last_read = "clean"
    /\ peakdb = -45
    /\ peak = 0

-----------------------------------------------------------------------------
(* The detectors: C3, C5, C6, C7, C8, C10 (under Spec) *)

\* the silence stage of an evaluated tick is over
AfterSilence ==
    /\ tickkind = "eval"
    /\ pc \in { "nodynamic", "run_nodynamic", "while", "usleep", "finish" }

\* an evaluated tick is over
TickDone ==
    /\ tickkind = "eval"
    /\ pc \in { "while", "usleep", "finish" }

\* C3: debounce. For an enabled detector with a period P >= 1: it fires
\* only on evaluated ticks; once its stage of an evaluated tick is over it
\* has fired if and only if its condition held on this tick and on the P-1
\* evaluated ticks before it, all after its previous fire; if the condition
\* failed on this tick its count is 0; and once its trigger has returned
\* its count is 0 and in_grace is grace_period.
Debounce ==
    /\ fired # {} => tickkind = "eval"
    /\ (silence_theshold # 0 /\ silence_period >= 1 /\ AfterSilence) =>
          /\ "SILENCE" \in fired <=> "SILENCE" \in due
          /\ "SILENCE" \notin met => silence_count = 0
          /\ "SILENCE" \in fired =>
                silence_count = 0 /\ in_grace = grace_period
    /\ (nodynamic_theshold # 0 /\ nodynamic_period >= 1 /\ TickDone) =>
          /\ "NO_DYNAMIC" \in fired <=> "NO_DYNAMIC" \in due
          /\ "NO_DYNAMIC" \notin met => nodynamic_count = 0
          /\ "NO_DYNAMIC" \in fired =>
                nodynamic_count = 0 /\ in_grace = grace_period

\* SILENCE has fired after OptPeriod silent ticks and its trigger returned
DebounceWitness ==
    /\ TickDone
    /\ silence_period = OptPeriod
    /\ grace_period = OptGrace
    /\ "SILENCE" \in fired
    /\ streak_n = 1

\* C5: grace suppression. With g = grace_period, on each of the g ticks
\* after a tick on which a trigger returned: the tick is a grace tick, no
\* trigger fires, in_grace has gone down by one per tick, the loop does
\* not reach the detectors, and no step changes silence_count or
\* nodynamic_count; the (g+1)-th tick is not a grace tick.
GraceSuppression ==
    /\ [] ( since_fire \in 1..grace_period =>
              /\ tickkind = "grace"
              /\ fired = {}
              /\ in_grace = grace_period - since_fire
              /\ pc \in { "while", "usleep", "finish" } )
    /\ [] ( since_fire = grace_period + 1 => tickkind # "grace" )
    /\ [][ since_fire' \in 1..grace_period =>
              /\ silence_count' = silence_count
              /\ nodynamic_count' = nodynamic_count ]_vars

\* the last of OptGrace grace ticks is over, with audio in the cell
GraceSuppressionWitness ==
    /\ grace_period = OptGrace
    /\ since_fire = grace_period
    /\ tickkind = "grace"
    /\ pc = "while"
    /\ in_grace = 0
    /\ peak = 31623

\* C6: simultaneous fire. When an evaluated tick on which both detectors
\* have reached their periods is over, both triggers have fired on it, both
\* counts are 0 and in_grace is grace_period (set, not added).
SimultaneousFire ==
    (TickDone /\ due = Detectors) =>
        /\ fired = Detectors
        /\ silence_count = 0
        /\ nodynamic_count = 0
        /\ in_grace = grace_period

\* both detectors, each with a period of OptPeriod, fired on one tick
SimultaneousFireWitness ==
    /\ TickDone
    /\ fired = Detectors
    /\ silence_period = OptPeriod
    /\ nodynamic_period = OptPeriod
    /\ grace_period = OptGrace

\* C7: a detector whose threshold is 0 is disabled: its count stays 0 and
\* its trigger never fires, whatever the input and the period.
DisabledDetector ==
    /\ silence_theshold = 0 =>
          /\ silence_count = 0
          /\ "SILENCE" \notin fired
          /\ pc # "run_silence"
    /\ nodynamic_theshold = 0 =>
          /\ nodynamic_count = 0
          /\ "NO_DYNAMIC" \notin fired
          /\ pc # "run_nodynamic"

\* both detectors disabled, both periods 0: an evaluated tick with a
\* reading of digital silence, equal to the reading before, is over
DisabledDetectorWitness ==
    /\ TickDone
    /\ silence_theshold = 0
    /\ nodynamic_theshold = 0
    /\ silence_period = 0
    /\ nodynamic_period = 0
    /\ peakdb = SilenceFloorDb
    /\ last_peakdb = SilenceFloorDb

\* C8: a tick that begins with the port not connected changes none of
\* silence_count, nodynamic_count and in_grace (also when in_grace > 0) and
\* fires no trigger.
DisconnectedTickInert ==
    [][ (TickBegins /\ ~connected) =>
           /\ silence_count' = silence_count
           /\ nodynamic_count' = nodynamic_count
           /\ in_grace' = in_grace
           /\ pc' = "while" ]_vars

\* C10: once running is 0 no trigger is invoked any more.
NoTriggerAfterShutdown ==
    [][ running = 0 => ~(SilenceFires \/ NoDynamicFires) ]_vars

-----------------------------------------------------------------------------
(* The scripted runs: C4 (under SpecDebounce), C9 (under SpecEndToEnd) *)

\* C4 (as stated): with -l -40 -p 3 and the readings -50, -50, -45, -50,
\* -50, -50, SILENCE fires on the 6th tick and on no other.
DebounceScenarioOnce ==
    \A i \in 1..Len(trace) :
        trace[i].fired = IF i = 6 THEN { "SILENCE" } ELSE {}

\* what each tick of the scripted debounce run leaves
DebounceExpected ==
    << [ fired |-> {}, silence_count |-> 1 ],
       [ fired |-> {}, silence_count |-> 2 ],
       [ fired |-> { "SILENCE" }, silence_count |-> 0 ],
       [ fired |-> {}, silence_count |-> 1 ],
       [ fired |-> {}, silence_count |-> 2 ],
       [ fired |-> { "SILENCE" }, silence_count |-> 0 ] >>

\* C4 (amended): with -l -40 -p 3 and the readings -50, -50, -45, -50,
\* -50, -50, every tick is evaluated and SILENCE fires exactly twice, on
\* the 3rd and on the 6th tick: -45 is below -40, so the count goes 1, 2,
\* 3 (fire, back to 0), 1, 2, 3 (fire, back to 0).
DebounceScenario ==
    \A i \in 1..Len(trace) :
        /\ trace[i].kind = "eval"
        /\ trace[i].fired = DebounceExpected[i].fired
        /\ trace[i].silence_count = DebounceExpected[i].silence_count
        /\ trace[i].in_grace = 0

\* the six ticks of the debounce run are over
DebounceScenarioWitness ==
    /\ Len(trace) = 6
    /\ feed = <<>>

\* what each tick of the scripted end-to-end run leaves
EndToEndExpected ==
    << [ kind |-> "eval", fired |-> {}, silence_count |-> 0,
         nodynamic_count |-> 0, in_grace |-> 0 ],
       [ kind |-> "eval", fired |-> {}, silence_count |-> 1,
         nodynamic_count |-> 0, in_grace |-> 0 ],
       [ kind |-> "eval", fired |-> { "SILENCE" }, silence_count |-> 0,
         nodynamic_count |-> 0, in_grace |-> 1 ],
       [ kind |-> "grace", fired |-> {}, silence_count |-> 0,
         nodynamic_count |-> 0, in_grace |-> 0 ] >>

\* C9: with -l -40 -p 2 -g 1 and the readings -10, -45, -45, -10: tick 1
\* no fire, count 0; tick 2 no fire, count 1; tick 3 fires SILENCE and
\* leaves count 0 and in_grace 1; tick 4 is a grace tick with no evaluation
\* and no fire; both counts and in_grace are 0 entering tick 5.
EndToEndScenario ==
    \A i \in 1..Len(trace) : trace[i] = EndToEndExpected[i]

\* the four ticks of the end-to-end run are over, the loud fourth reading
\* still in the cell
EndToEndScenarioWitness ==
    /\ Len(trace) = 4
    /\ feed = <<>>
    /\ pc = "usleep"
    /\ Lin2Db(peak) = -10

-----------------------------------------------------------------------------
(* Shutdown *)

\* The program with main's thread scheduled: whenever main can take its
\* next step (usleep returns, a started command ends) it eventually does.
\* Nothing is assumed of the callbacks.  -p OptPeriod -P OptPeriod.5
\* -g OptGrace; each detector enabled or not, the port connected or not at
\* the start, any command.
InitShutdown ==
    /\ \E l \in OptL, d \in OptD, cmd \in Commands :
          Start(l, << "", << OptPeriod >> >>, d, 10 * OptPeriod + 5,
                << "", << OptGrace >> >>, cmd)
    /\ ObserveInit
    /\ PeakObserveInit
    /\ ShutdownObserveInit
    /\ TickObserveInit
    /\ feed = <<>>
    /\ trace = <<>>

ShutdownStep(A) ==
    /\ A /\ Observe /\ ShutdownObserve
    /\ UNCHANGED << peak_obs, script_vars, tick_obs >>

MainNext ==
    \/ ShutdownStep(LoopTest)
    \/ ShutdownStep(GraceTick)
    \/ ShutdownStep(DisconnectedTick)
    \/ ShutdownStep(EvalTick)
    \/ ShutdownStep(ReadPeakLoad)
    \/ ShutdownStep(ReadPeakReset)
    \/ ShutdownStep(SilenceDetect)
    \/ ShutdownStep(SilenceRunCommand)
    \/ ShutdownStep(NoDynamicDetect)
    \/ ShutdownStep(NoDynamicRunCommand)

NextShutdown ==
    \/ MainNext
    \/ ShutdownStep(ProcessPeak)
    \/ ShutdownStep(Reconnect)
    \/ ShutdownStep(ShutdownCallback)

SpecShutdown == InitShutdown /\ [][NextShutdown]_vars /\ WF_vars(MainNext)

\* C11: once running is cleared main begins at most one more tick, and it
\* then leaves the loop: it reaches finish_jack, or the process has ended in
\* run_command (the command "exit", a fork that fails).
ShutdownEndsLoop ==
    /\ [](late_ticks <= 1)
    /\ [][running = 0 /\ pc = "while" => pc' \in { "while", "finish" }]_vars
    /\ (running = 0) ~> Stopped

\* running was cleared during a sleep, the tick that followed fired its
\* command, the command returned and main has left the loop
ShutdownEndsLoopWitness ==
    /\ late_ticks = 1
    /\ fired # {}
    /\ pc = "finish"

-----------------------------------------------------------------------------
(* The ticks and read_peak *)

\* C12: every tick, a grace tick and a tick with the port unconnected
\* included, calls read_peak (which reads peak and zeroes it), so that no
\* tick ends with the peak of its own second still in the cell.
ReadOnEveryTick ==
    [][TickBegins => pc' = "read_peak"]_vars

-----------------------------------------------------------------------------
(* A period of zero *)

\* C13: a detector whose period is zero fires on the first evaluated tick
\* whose readings meet its condition and on no evaluated tick before it:
\* a tick on which it has fired is a tick whose readings meet its
\* condition.
ZeroPeriodFiresOnQualifying ==
    /\ silence_period = 0 /\ "SILENCE" \in fired => "SILENCE" \in met
    /\ nodynamic_period = 0 /\ "NO_DYNAMIC" \in fired => "NO_DYNAMIC" \in met

-----------------------------------------------------------------------------
(* The grace counter *)

\* C14: in_grace stays within 0..grace_period; it changes only by going
\* down by one when a tick begins with in_grace > 0, or by being set to
\* grace_period when a trigger has returned; a tick that begins with
\* in_grace > 0 is over with that step, no count changed, nothing fired.
GraceCounter ==
    /\ [] ( 0 <= in_grace /\ in_grace <= grace_period )
    /\ [][ in_grace' # in_grace =>
              \/ TickBegins /\ in_grace > 0 /\ in_grace' = in_grace - 1
              \/ TriggerReturns /\ in_grace' = grace_period ]_vars
    /\ [][ TickBegins /\ in_grace > 0 =>
              /\ pc' = "while"
              /\ silence_count' = silence_count
              /\ nodynamic_count' = nodynamic_count
              /\ fired' = {} ]_vars

\* both triggers ran on one tick, and the first of the OptGrace grace
\* ticks that follow has taken in_grace down by one
GraceCounterWitness ==
    /\ grace_period = OptGrace
    /\ in_grace = OptGrace - 1
    /\ tickkind = "grace"
    /\ since_fire = 1
    /\ silence_theshold # 0
    /\ nodynamic_theshold # 0
    /\ silence_period = OptPeriod
    /\ nodynamic_period = OptPeriod
    /\ silence_count = 0
    /\ nodynamic_count = 0

-----------------------------------------------------------------------------
(* The periods given on the command line *)

\* C15: whatever is given for -p, -P and -g, the three periods the loop
\* works with are never negative.
PeriodsNonNegative ==
    /\ silence_period >= 0
    /\ nodynamic_period >= 0
    /\ grace_period >= 0

-----------------------------------------------------------------------------
(* The program with its readings, skipped ticks and commands observed *)

\* -p OptPeriod -P OptPeriod.5 -g OptGrace; each detector enabled or not,
\* the port connected or not at the start, any command.
InitTicks ==
    /\ \E l \in OptL, d \in OptD, cmd \in Commands :
          Start(l, << "", << OptPeriod >> >>, d, 10 * OptPeriod + 5,
                << "", << OptGrace >> >>, cmd)
    /\ ObserveInit
    /\ PeakObserveInit
    /\ ShutdownObserveInit
    /\ TickObserveInit
    /\ feed = <<>>
    /\ trace = <<>>

TickStep(A) ==
    /\ A /\ Observe /\ TickObserve
    /\ UNCHANGED << peak_obs, script_vars, shutdown_obs >>

NextTicks ==
    \/ TickStep(LoopTest)
    \/ TickStep(GraceTick)
    \/ TickStep(DisconnectedTick)
    \/ TickStep(EvalTick)
    \/ TickStep(ReadPeakLoad)
    \/ TickStep(ReadPeakReset)
    \/ TickStep(SilenceDetect)
    \/ TickStep(SilenceRunCommand)
    \/ TickStep(NoDynamicDetect)
    \/ TickStep(NoDynamicRunCommand)
    \/ TickStep(ProcessPeak)
    \/ TickStep(Reconnect)
    \/ TickStep(ShutdownCallback)

SpecTicks == InitTicks /\ [][NextTicks]_vars

\* C16: run_command is called from the loop and the loop waits for it.
\* While a command runs no step changes the counts, in_grace, the two
\* readings or read_peak's result, and peak is not zeroed (the callback
\* alone touches it); the count of the detector that called it is still at
\* or past its period and in_grace is not yet set for this call; the step
\* on which the command returns sets that count to 0 and in_grace to
\* grace_period.
TriggerSynchronous ==
    /\ [][ InCommand /\ pc' = pc =>
              /\ UNCHANGED << silence_count, nodynamic_count, in_grace,
                              peakdb, last_peakdb, rp_peakdb >>
              /\ this_reading' = this_reading
              /\ peak' >= peak ]_vars
    /\ [] ( pc = "run_silence" =>
              /\ silence_count >= silence_period
              /\ in_grace = 0 )
    /\ [] ( pc = "run_nodynamic" =>
              /\ nodynamic_count >= nodynamic_period
              /\ in_grace = IF "SILENCE" \in fired THEN grace_period ELSE 0 )
    /\ [][ TriggerReturns =>
              /\ in_grace' = grace_period
              /\ pc = "run_silence" => silence_count' = 0
              /\ pc = "run_nodynamic" => nodynamic_count' = 0 ]_vars

\* the command for **SILENCE** is running after OptPeriod quiet seconds and
\* the callback has meanwhile put a loud sample into the zeroed cell
TriggerSynchronousWitness ==
    /\ pc = "run_silence"
    /\ command = "prog"
    /\ silence_count = OptPeriod
    /\ in_grace = 0
    /\ call_heard
    /\ peak = 31623

-----------------------------------------------------------------------------
(* The counts and the periods *)

\* C17: for a period that is not negative, the count of its detector is
\* never negative, and it is at or past max(1, period) only between the
\* statement that counted the tick and the return of the command (or in a
\* process that ended inside run_command); so when a tick is over
\* 0 <= count < max(1, period).
CountsBelowPeriod ==
    /\ silence_period >= 0 =>
          /\ silence_count >= 0
          /\ silence_count >= Max(1, silence_period) =>
                pc \in { "run_silence", "exit" }
    /\ nodynamic_period >= 0 =>
          /\ nodynamic_count >= 0
          /\ nodynamic_count >= Max(1, nodynamic_period) =>
                pc \in { "run_nodynamic", "exit" }

\* a tick is over on which the no-dynamic trigger ran, its count back at 0,
\* while the silence count stands one below its period
CountsBelowPeriodWitness ==
    /\ pc = "while"
    /\ tickkind = "eval"
    /\ silence_theshold # 0
    /\ silence_period = OptPeriod
    /\ silence_count = OptPeriod - 1
    /\ nodynamic_theshold # 0
    /\ nodynamic_period = OptPeriod
    /\ nodynamic_count = 0
    /\ fired = { "NO_DYNAMIC" }

-----------------------------------------------------------------------------
(* The readings across skipped ticks *)

AfterRead == pc \in { "silence", "run_silence", "nodynamic", "run_nodynamic" }

\* C18: a grace or disconnected tick leaves peakdb, last_peakdb and peak as
\* they are; last_peakdb changes only when an evaluated tick begins and
\* peakdb only when read_peak returns; what read_peak reads is all the
\* callback has left in the cell since the cell was last zeroed, however
\* many ticks were skipped since; and the detectors of an evaluated tick
\* see as peakdb what this call of read_peak returned and as last_peakdb
\* what the call before it returned, 0 if there was none.
SkippedTickKeepsReadings ==
    /\ [][ TickBegins /\ pc' = "while" =>
              /\ peakdb' = peakdb
              /\ last_peakdb' = last_peakdb
              /\ peak' = peak ]_vars
    /\ [][ last_peakdb' # last_peakdb => TickBegins /\ pc' = "read_peak" ]_vars
    /\ [][ peakdb' # peakdb => ReadReturns ]_vars
    /\ [][ pc = "read_peak" /\ pc' = "reset" =>
              rp_peakdb' = Lin2Db(heard) ]_vars
    /\ [] ( AfterRead =>
              /\ peakdb = this_reading
              /\ last_peakdb = prev_reading )

\* the first evaluated tick after two skipped ticks reads -10 dB; the tick
\* evaluated before them had read -50 dB
SkippedTickKeepsReadingsWitness ==
    /\ pc = "nodynamic"
    /\ tickkind = "eval"
    /\ skipped = 2
    /\ peakdb = -10
    /\ last_peakdb = -50
    /\ prev_reading = -50
    /\ nodynamic_theshold # 0

-----------------------------------------------------------------------------
(* The two counts are kept apart *)

\* C19: the silence block (count, command, reset) never changes
\* nodynamic_count and the no-dynamic block never changes silence_count;
\* the return of a command changes only the count of its own detector,
\* in_grace and the place in the loop; the counts as the tick with a
\* trigger leaves them stay as they are until read_peak returns on the
\* next evaluated tick, and the detectors of that tick count on from them.
FireKeepsOtherCount ==
    /\ [][ (pc = "silence" \/ pc = "run_silence") =>
              UNCHANGED nodynamic_count ]_vars
    /\ [][ (pc = "nodynamic" \/ pc = "run_nodynamic") =>
              UNCHANGED silence_count ]_vars
    /\ [][ TriggerReturns =>
              UNCHANGED << input_port, peak, running, connected, config,
                           peakdb, last_peakdb, rp_peakdb, cb_vars >> ]_vars
    /\ [] ( carry # << >> => << silence_count, nodynamic_count >> = carry )
    /\ [][ /\ pc = "silence" /\ pc' # "silence"
           /\ silence_theshold # 0 /\ "SILENCE" \in met
           => silence_count' = silence_count + 1 ]_vars
    /\ [][ /\ pc = "nodynamic" /\ pc' # "nodynamic"
           /\ nodynamic_theshold # 0 /\ "NO_DYNAMIC" \in met
           => nodynamic_count' = nodynamic_count + 1 ]_vars

\* the silence trigger ran with nodynamic_count one below its period; after
\* the OptGrace grace ticks the first reading keeps still, and the
\* no-dynamic trigger is run with the count at its period
FireKeepsOtherCountWitness ==
    /\ pc = "run_nodynamic"
    /\ tickkind = "eval"
    /\ grace_period = OptGrace
    /\ skipped = OptGrace
    /\ since_fire = grace_period + 1
    /\ silence_theshold # 0
    /\ nodynamic_period = OptPeriod
    /\ nodynamic_count = OptPeriod
    /\ silence_count = 1
    /\ fired = { "NO_DYNAMIC" }

=============================================================================
